---- MODULE Spec2Model ----
(***************************************************************************)
(* CLogger (src/src/lib.rs): init_clogger installs, at most once per       *)
(* process, a fern Dispatch that formats every record and writes it to     *)
(* stdout and to an append-mode log file; c_log!/c_warn!/c_error!/c_debug! *)
(* emit records through the `log` facade.                                  *)
(*                                                                         *)
(* The model follows every thread through init_clogger and through one     *)
(* emission, step by step: std::sync::Once (incomplete, running, complete, *)
(* poisoned), fern::log_file, Dispatch::apply (log::set_boxed_logger, then *)
(* log::set_max_level), the facade's level check and logger lookup, and    *)
(* the two chained outputs, each written under its own lock in two pieces  *)
(* (the formatted prefix, then the message and the line separator).        *)
(***************************************************************************)
EXTENDS Integers, Sequences, FiniteSets

\* ----------------------------------------------------------------- bounds
NThreads == 2
NPaths == 2
MaxInits == 2
MaxEmits == 2

Threads == 1..NThreads
Paths == 1..NPaths
NoThread == 0
NoPath == 0

\* ------------------------------------------------------ log::Level / filter
Off == 0
Error == 1
Warn == 2
Info == 3
Debug == 4
Trace == 5

Levels == {Error, Warn, Info, Debug, Trace}

\* variant: .level(log::LevelFilter::Trace)
LevelFilterTrace == Trace

\* .level(log::LevelFilter::Debug)
LevelFilter == Debug

\* The level each emission entry point logs at. "trace" is a direct use of
\* log::trace! by the application: CLogger has no helper for it.
Helpers == {"c_log", "c_warn", "c_error", "c_debug", "trace"}

HelperLevel(h) ==
    CASE h = "c_log" -> Info
      [] h = "c_warn" -> Warn
      [] h = "c_error" -> Error
      [] h = "c_debug" -> Debug
      [] h = "trace" -> Trace

\* $message, $message.yellow(), $message.red()
HelperMessage(h, id) ==
    CASE h = "c_warn" -> <<"yellow", id>>
      [] h = "c_error" -> <<"red", id>>
      [] OTHER -> <<"plain", id>>

\* the level letter of the format closure, with its colour
Glyph(level) ==
    CASE level = Info -> <<"green", "I">>
      [] level = Warn -> <<"yellow", "W">>
      [] level = Error -> <<"red", "E">>
      [] level = Debug -> <<"blue", "D">>
      [] level = Trace -> <<"purple", "T">>

\* format!("{} ({}:{}^{})", $module, file, line, column): the call site is
\* the emission itself, so the record's id stands for file:line^column.
Target(module, id) == <<module, id>>

VARIABLES
    pc,          \* pc[t]: where thread t is
    once,        \* the state of `static INIT: Once`
    logger,      \* log's global logger: "none", "clogger" or "foreign"
    maxLevel,    \* log::max_level()
    sink,        \* the path of the file output of the installed Dispatch
    local,       \* local[t]: the path init_clogger was called with
    cur,         \* cur[t]: the record thread t is emitting
    exists,      \* the paths that exist in the file system
    files,       \* files[p]: what path p holds, a sequence of pieces
    stdout,      \* what the process wrote to standard output
    stdoutLock,  \* the holder of io::Stdout's lock
    fileLock,    \* the holder of the file output's Mutex
    clock,       \* Local::now(), a logical clock
    inits,       \* inits[t]: init_clogger calls thread t has made
    emits,       \* emissions made so far, by all threads
    emitted,     \* history: every record handed to an emission entry point
    opened,      \* history: the paths fern::log_file opened
    bodyRuns,    \* history: how many times the call_once closure started
    firstPath    \* history: the path given to the first init_clogger call

vars == <<pc, once, logger, maxLevel, sink, local, cur, exists, files, stdout,
          stdoutLock, fileLock, clock, inits, emits, emitted, opened, bodyRuns,
          firstPath>>

NoRec == [id |-> <<0, 0>>, level |-> Off, target |-> <<"", <<0, 0>>>>,
          message |-> <<"plain", <<0, 0>>>>, ts |-> 0, k |-> 0]

\* a line the file held before the process started
OldLine == [rec |-> <<0, 0>>, part |-> "line", text |-> <<>>]

\* the record of the bootstrap c_log! of thread t has sequence number 0
IsBoot(id) == id[1] # 0 /\ id[2] = 0

\* The process starts with INIT incomplete and no logger installed; the log
\* files either all exist already, with a line from an earlier run, or none does.
Init ==
    /\ pc = [t \in Threads |-> "idle"]
    /\ once = "incomplete"
    /\ logger = "none"
    /\ maxLevel = Off
    /\ sink = NoPath
    /\ local = [t \in Threads |-> NoPath]
    /\ cur = [t \in Threads |-> NoRec]
    /\ exists \in {{}, Paths}
    /\ files = [p \in Paths |-> IF p \in exists THEN <<OldLine>> ELSE <<>>]
    /\ stdout = <<>>
    /\ stdoutLock = NoThread
    /\ fileLock = NoThread
    /\ clock = 0
    /\ inits = [t \in Threads |-> 0]
    /\ emits = 0
    /\ emitted = {}
    /\ opened = {}
    /\ bodyRuns = 0
    /\ firstPath = NoPath

RECURSIVE Sum(_, _)
Sum(f, S) == IF S = {} THEN 0 ELSE LET x == CHOOSE y \in S : TRUE IN f[x] + Sum(f, S \ {x})

\* the calls the model lets the threads make
CanInit(t) == pc[t] = "idle" /\ Sum(inits, Threads) < MaxInits
CanEmit(t) == pc[t] = "idle" /\ emits < MaxEmits

\* ------------------------------------------------------------ std::sync::Once
\* variant: INIT is a local of init_clogger, new in every call
OnceAlwaysFresh == TRUE

\* variant: the completion of INIT is not kept, only a running closure is seen
OnceFreshOrComplete == once \in {"incomplete", "complete"}

\* INIT is a `static`: the closure runs only for the first caller.
OnceIsFresh == once = "incomplete"

\* variant: a caller that finds the closure running does not wait for it
OnceWaitNoBlock == TRUE

\* a caller that found the closure running returns when it has completed
OnceWaitDone == once = "complete"

\* variant: the bootstrap c_log! placed after call_once, not inside the closure
IgnoredCallBoots == "boot"

\* what a call does that finds INIT completed: nothing
IgnoredCallPc == "idle"

\* variant: the bootstrap c_log! placed before apply()
BodyOrderBootFirst == <<"log_file", "boot", "apply", "set_max_level">>

\* the statements of the closure, in order: fern::log_file(..).unwrap() (the
\* Dispatch is built around it), apply() in its two halves, the bootstrap c_log!
BodyOrder == <<"log_file", "apply", "set_max_level", "boot">>

\* what follows a statement of the closure; "idle" after the last
After(step) ==
    LET i == CHOOSE j \in 1..Len(BodyOrder) : BodyOrder[j] = step
    IN IF i = Len(BodyOrder) THEN "idle" ELSE BodyOrder[i + 1]

\* thread t goes on to `to`; when the closure ends, INIT is complete
Step(t, to) ==
    /\ pc' = [pc EXCEPT ![t] = to]
    /\ once' = IF to = "idle" THEN "complete" ELSE once

\* ------------------------------------------------------------- init_clogger
\* init_clogger(log_file_path): INIT.call_once(|| ...). The Dispatch with its
\* format closure, its level and its stdout output is built as the closure
\* starts; it is local to the caller until apply() installs it.
init_clogger(t, p) ==
    /\ CanInit(t)
    /\ inits' = [inits EXCEPT ![t] = @ + 1]
    /\ local' = [local EXCEPT ![t] = p]
    /\ firstPath' = IF Sum(inits, Threads) = 0 THEN p ELSE firstPath
    /\ IF OnceIsFresh
       THEN /\ once' = "running"
            /\ bodyRuns' = bodyRuns + 1
            /\ pc' = [pc EXCEPT ![t] = BodyOrder[1]]
       ELSE /\ UNCHANGED <<once, bodyRuns>>
            /\ pc' = [pc EXCEPT ![t] =
                      CASE once = "running" -> "once_wait"
                        [] once = "poisoned" -> "panic_poisoned"
                        [] OTHER -> IgnoredCallPc]
    /\ UNCHANGED <<logger, maxLevel, sink, cur, exists, files, stdout,
                   stdoutLock, fileLock, clock, emits, emitted, opened>>

\* a caller blocked in call_once wakes up: the closure completed (return) or
\* panicked (the Once is poisoned, and call_once panics)
OnceWait(t) ==
    /\ pc[t] = "once_wait"
    /\ \/ /\ OnceWaitDone
          /\ pc' = [pc EXCEPT ![t] = "idle"]
       \/ /\ once = "poisoned"
          /\ pc' = [pc EXCEPT ![t] = "panic_poisoned"]
    /\ UNCHANGED <<once, logger, maxLevel, sink, local, cur, exists, files,
                   stdout, stdoutLock, fileLock, clock, inits, emits, emitted,
                   opened, bodyRuns, firstPath>>

\* fern::log_file(log_file_path).unwrap(): the file is opened for appending
\* and created when missing; an Err panics inside the closure, which poisons
\* INIT.
LogFileOpened(t) ==
    /\ exists' = exists \cup {local[t]}
    /\ opened' = opened \cup {local[t]}
    /\ Step(t, After("log_file"))

\* variant: the Err of fern::log_file dropped instead of unwrapped
LogFileFailedIgnored(t) ==
    /\ pc' = [pc EXCEPT ![t] = "apply"]
    /\ UNCHANGED <<once, exists, opened>>

LogFileFailed(t) ==
    /\ pc' = [pc EXCEPT ![t] = "panic_open"]
    /\ once' = "poisoned"
    /\ UNCHANGED <<exists, opened, firstPath>>

LogFile(t) ==
    /\ pc[t] = "log_file"
    /\ \/ LogFileOpened(t)
       \/ LogFileFailed(t)
    /\ UNCHANGED <<logger, maxLevel, sink, local, cur, files, stdout,
                   stdoutLock, fileLock, clock, inits, emits, emitted, bodyRuns, firstPath>>

\* log::set_boxed_logger fails when a logger is already installed
ApplyFails == logger # "none"

\* base_config.apply().unwrap(), first half: log::set_boxed_logger(dispatch).
\* On Err the Dispatch (and its file handle) is dropped and unwrap panics.
Apply(t) ==
    /\ pc[t] = "apply"
    /\ IF ApplyFails
       THEN /\ pc' = [pc EXCEPT ![t] = "panic_apply"]
            /\ once' = "poisoned"
            /\ UNCHANGED <<logger, sink, firstPath>>
       ELSE /\ logger' = "clogger"
            /\ sink' = local[t]
            /\ Step(t, After("apply"))
    /\ UNCHANGED <<maxLevel, local, cur, exists, files, stdout, stdoutLock,
                   fileLock, clock, inits, emits, emitted, opened, bodyRuns, firstPath>>

\* apply(), second half: log::set_max_level(the Dispatch's level)
SetMaxLevel(t) ==
    /\ pc[t] = "set_max_level"
    /\ maxLevel' = LevelFilter
    /\ Step(t, After("set_max_level"))
    /\ UNCHANGED <<logger, sink, local, cur, exists, files, stdout,
                   stdoutLock, fileLock, clock, inits, emits, emitted, opened,
                   bodyRuns, firstPath>>

\* another mechanism (env_logger, a second logging crate, ...) installs the
\* process's global logger
SetForeignLogger ==
    /\ logger = "none"
    /\ logger' = "foreign"
    /\ maxLevel' = Trace
    /\ UNCHANGED <<pc, once, sink, local, cur, exists, files, stdout,
                   stdoutLock, fileLock, clock, inits, emits, emitted, opened,
                   bodyRuns, firstPath>>

\* ------------------------------------------------------------------ emission
\* $module: module_path!() from the one-argument arm (the bootstrap record),
\* or the caller's, as the emissions of the threads give it
ModulePath == "module_path!()"
Module == "example::module_name"

\* .chain(std::io::stdout()).chain(fern::log_file(..)): the outputs, in order
Chain == <<"stdout", "file">>

\* when an emission starts: after init_clogger completed, while its closure
\* runs with the Dispatch installed, or before any Dispatch is installed
Phase ==
    IF once = "complete" THEN "post"
    ELSE IF logger = "clogger" THEN "during" ELSE "pre"

\* variant: the fail-fast policy, an emission nobody takes panics
DroppedPanics == "panic_emit"

\* what an emission does that the facade does not hand to a logger: it returns
DroppedPc == "idle"

\* the emission of thread t is over: the caller goes on, and for the bootstrap
\* record the caller is the closure
Return(t, id, to) ==
    IF IsBoot(id) /\ to = "idle"
    THEN Step(t, After("boot"))
    ELSE pc' = [pc EXCEPT ![t] = to] /\ UNCHANGED once

\* info!/warn!/error!/debug!(target: ..., "{}", $message): the facade's check
\* `level <= log::max_level()`, before the logger is looked up
MacroLog(t, rec, phase) ==
    /\ emitted' = emitted \cup {[id |-> rec.id, level |-> rec.level, phase |-> phase]}
    /\ IF rec.level <= maxLevel
       THEN /\ cur' = [cur EXCEPT ![t] = rec]
            /\ pc' = [pc EXCEPT ![t] = "logger"]
            /\ UNCHANGED once
       ELSE /\ UNCHANGED cur
            /\ Return(t, rec.id, DroppedPc)

Emit(t, h) ==
    /\ CanEmit(t)
    /\ emits' = emits + 1
    /\ LET id == <<t, emits + 1>>
       IN MacroLog(t, [id |-> id, level |-> HelperLevel(h), target |-> Target(Module, id),
                       message |-> HelperMessage(h, id), ts |-> 0, k |-> 0], Phase)
    /\ UNCHANGED <<logger, maxLevel, sink, local, exists, files, stdout,
                   stdoutLock, fileLock, clock, inits, opened, bodyRuns, firstPath>>

c_log(t) == Emit(t, "c_log")
c_warn(t) == Emit(t, "c_warn")
c_error(t) == Emit(t, "c_error")
c_debug(t) == Emit(t, "c_debug")
\* log::trace! used directly: CLogger has no entry point at this level
trace(t) == Emit(t, "trace")

\* c_log!("CLogger ... (init done)") as the closure's last statement
Boot(t) ==
    /\ pc[t] = "boot"
    /\ LET id == <<t, 0>>
       IN MacroLog(t, [id |-> id, level |-> HelperLevel("c_log"),
                       target |-> Target(ModulePath, id),
                       message |-> HelperMessage("c_log", id), ts |-> 0, k |-> 0], "boot")
    /\ UNCHANGED <<logger, maxLevel, sink, local, exists, files, stdout,
                   stdoutLock, fileLock, clock, inits, emits, opened, bodyRuns, firstPath>>

\* log::logger().log(record): the no-op logger until one is installed; the
\* Dispatch checks its own level, then formats: the timestamp is read now and
\* is the same in every output.
Log(t) ==
    /\ pc[t] = "logger"
    /\ IF logger = "clogger" /\ cur[t].level <= LevelFilter
       THEN /\ cur' = [cur EXCEPT ![t].ts = clock, ![t].k = 1]
            /\ clock' = clock + 1
            /\ pc' = [pc EXCEPT ![t] = "out_head"]
            /\ UNCHANGED once
       ELSE /\ Return(t, cur[t].id, "idle")
            /\ cur' = [cur EXCEPT ![t] = NoRec]
            /\ UNCHANGED clock
    /\ UNCHANGED <<logger, maxLevel, sink, local, exists, files, stdout,
                   stdoutLock, fileLock, inits, emits, emitted, opened, bodyRuns, firstPath>>

\* "({}) [{}] [{}] {}": the formatted line reaches an output in two pieces
Prefix(rec) ==
    [rec |-> rec.id, part |-> "head",
     text |-> <<"(", <<"cyan", rec.ts>>, ") [", Glyph(rec.level), "] [",
                <<"magenta", rec.target>>, "] ">>]

Rest(rec) == [rec |-> rec.id, part |-> "tail", text |-> <<rec.message, "\n">>]

\* variant: the file opened without append, every write at its start
FilePrepend(content, piece) == <<piece>> \o content

\* the file is opened in append mode: every write goes to its end
FileWrite(content, piece) == Append(content, piece)

\* variant: an output written without its lock
LockFreeAlways(o) == TRUE

\* an output is written with its lock held: io::Stdout's, the file's Mutex
LockFree(o) == IF o = "stdout" THEN stdoutLock = NoThread ELSE fileLock = NoThread

SetLock(o, who) ==
    /\ stdoutLock' = IF o = "stdout" THEN who ELSE stdoutLock
    /\ fileLock' = IF o = "file" THEN who ELSE fileLock

Put(o, piece) ==
    /\ stdout' = IF o = "stdout" THEN Append(stdout, piece) ELSE stdout
    /\ files' = IF o = "file" THEN [files EXCEPT ![sink] = FileWrite(@, piece)] ELSE files

\* for log in &self.output: lock the output, write the prefix ...
OutHead(t) ==
    /\ pc[t] = "out_head"
    /\ LET o == Chain[cur[t].k]
       IN /\ LockFree(o)
          /\ SetLock(o, t)
          /\ Put(o, Prefix(cur[t]))
    /\ pc' = [pc EXCEPT ![t] = "out_tail"]
    /\ UNCHANGED <<once, logger, maxLevel, sink, local, cur, exists, clock,
                   inits, emits, emitted, opened, bodyRuns, firstPath>>

\* ... write the message and the line separator, flush, unlock, next output
OutTail(t) ==
    /\ pc[t] = "out_tail"
    /\ LET o == Chain[cur[t].k]
       IN /\ SetLock(o, NoThread)
          /\ Put(o, Rest(cur[t]))
    /\ IF cur[t].k < Len(Chain)
       THEN /\ cur' = [cur EXCEPT ![t].k = @ + 1]
            /\ pc' = [pc EXCEPT ![t] = "out_head"]
            /\ UNCHANGED once
       ELSE /\ cur' = [cur EXCEPT ![t] = NoRec]
            /\ Return(t, cur[t].id, "idle")
    /\ UNCHANGED <<logger, maxLevel, sink, local, exists, clock, inits, emits,
                   emitted, opened, bodyRuns, firstPath>>

\* ------------------------------------------------------------- specification
Next ==
    \/ \E t \in Threads, p \in Paths : init_clogger(t, p)
    \/ \E t \in Threads : OnceWait(t)
    \/ \E t \in Threads : LogFile(t)
    \/ \E t \in Threads : Apply(t)
    \/ \E t \in Threads : SetMaxLevel(t)
    \/ \E t \in Threads : Boot(t)
    \/ SetForeignLogger
    \/ \E t \in Threads : c_log(t)
    \/ \E t \in Threads : c_warn(t)
    \/ \E t \in Threads : c_error(t)
    \/ \E t \in Threads : c_debug(t)
    \/ \E t \in Threads : trace(t)
    \/ \E t \in Threads : Log(t)
    \/ \E t \in Threads : OutHead(t)
    \/ \E t \in Threads : OutTail(t)

Spec == Init /\ [][Next]_vars

\* ------------------------------------------------------- reading the outputs
\* what the process added to path p: everything but the line it held before
Added(p) == SelectSeq(files[p], LAMBDA c : c.part # "line")

\* what the file output of the installed Dispatch received
FileSink == IF sink = NoPath THEN <<>> ELSE Added(sink)

\* the records whose line was ended in s, in the order of the line ends
Recs(s) ==
    LET tl == SelectSeq(s, LAMBDA c : c.part = "tail")
    IN [i \in 1..Len(tl) |-> tl[i].rec]

\* how many complete lines of record id the pieces s hold: the prefix, then at
\* once the message and the separator of the same record
Lines(s, id) ==
    Cardinality({i \in 1..(Len(s) - 1) :
        /\ s[i].rec = id /\ s[i].part = "head"
        /\ s[i + 1].rec = id /\ s[i + 1].part = "tail"})

\* no piece of record id is in s
Absent(s, id) == \A i \in 1..Len(s) : s[i].rec # id

\* the emission of record id is over: no thread holds it
Done(id) == \A t \in Threads : cur[t].id # id

\* every thread is between two calls, or dead
Quiet == \A t \in Threads : pc[t] \in {"idle", "panic_open", "panic_apply", "panic_poisoned"}

\* s is a sequence of complete lines, each of one record, but for a last line
\* whose writer `holder` has written the prefix and still holds the lock
WellFormed(s, holder) ==
    /\ \A i \in 1..Len(s) :
          /\ s[i].part = "tail" => i > 1 /\ s[i - 1].part = "head" /\ s[i - 1].rec = s[i].rec
          /\ s[i].part = "head" /\ i < Len(s) => s[i + 1].part = "tail" /\ s[i + 1].rec = s[i].rec
    /\ Len(s) > 0 /\ s[Len(s)].part = "head" =>
          /\ holder # NoThread
          /\ pc[holder] = "out_tail"
          /\ cur[holder].id = s[Len(s)].rec

BootIds == {<<t, 0>> : t \in Threads}

\* ---------------------------------------------------------------- the claims

\* C1: however often and with whatever paths init_clogger is called, the
\* closure starts at most once, only the first call's path is ever opened,
\* and every other path is neither created nor written.
C1_SetupOnceFirstPathOnly ==
    /\ bodyRuns <= 1
    /\ opened \subseteq {firstPath}
    /\ sink \in {NoPath, firstPath}
    /\ \A p \in Paths \ {firstPath} :
          /\ Added(p) = <<>>
          /\ p \in exists => files[p] = <<OldLine>>

\* two calls with different paths are over, the first one's setup succeeded
C1_Witness ==
    /\ once = "complete"
    /\ Quiet
    /\ Sum(inits, Threads) = 2
    /\ \E t \in Threads : local[t] # firstPath
    /\ Added(firstPath) # <<>>

\* C3: once init_clogger has completed, a record emitted at Debug, Info, Warn
\* or Error is, when its emission returns, written once to stdout and once to
\* the file; a record is never in one output only after its emission; a Trace
\* record is in neither output.
C3_BothSinksOrNone ==
    \A r \in emitted :
        /\ r.level = Trace => Absent(stdout, r.id) /\ \A p \in Paths : Absent(files[p], r.id)
        /\ Done(r.id) => (Lines(stdout, r.id) = Lines(FileSink, r.id))
        /\ Done(r.id) /\ r.phase = "post" /\ r.level \in {Debug, Info, Warn, Error} =>
              Lines(stdout, r.id) = 1 /\ Lines(FileSink, r.id) = 1

\* after a completed init_clogger, a Trace record and a Warn record were emitted
C3_Witness ==
    /\ Quiet
    /\ \E r \in emitted : r.phase = "post" /\ r.level = Trace
    /\ \E r \in emitted : r.phase = "post" /\ r.level = Warn /\ Lines(FileSink, r.id) = 1

\* thread t is inside the call_once closure
InBody(t) ==
    \/ pc[t] \in {"log_file", "apply", "set_max_level", "boot"}
    \/ cur[t].id \in BootIds

\* C2: when several threads call init_clogger while none has completed, the
\* closure starts once and one thread at most is inside it; a caller that
\* found it running leaves call_once normally only when INIT is complete, and
\* its own steps change no file, no logger, no level, no output.
C2_OneRunsOthersWait ==
    [][/\ bodyRuns' <= 1
       /\ Cardinality({t \in Threads : InBody(t)'}) <= 1
       /\ \A t \in Threads :
             pc[t] = "once_wait" /\ pc'[t] # "once_wait" =>
                /\ pc'[t] = "idle" => once = "complete"
                /\ UNCHANGED <<once, logger, maxLevel, sink, exists, files, stdout,
                               opened, emitted, bodyRuns>>]_vars

\* a second caller is blocked in call_once and the closure has just completed
C2_Witness == \E t \in Threads : pc[t] = "once_wait" /\ once = "complete"

\* the records emitted after init_clogger completed, but the Trace ones
PostIds == {r.id : r \in {x \in emitted : x.phase = "post" /\ x.level # Trace}}

\* C4: the pieces of an output are at every moment complete lines of one
\* record each (but for the line its lock holder is writing), no record has
\* two lines, and when the threads are between calls every record emitted
\* after init_clogger completed, but the Trace ones, has its line in the file.
C4_WholeLinesNoneLostNoneTwice ==
    /\ WellFormed(stdout, stdoutLock)
    /\ WellFormed(FileSink, fileLock)
    /\ \A r \in emitted : Lines(FileSink, r.id) <= 1
    /\ \A i \in 1..Len(FileSink) : \E r \in emitted : r.id = FileSink[i].rec
    /\ Quiet =>
          /\ \A id \in PostIds : Lines(FileSink, id) = 1
          /\ Cardinality({i \in 1..Len(Recs(FileSink)) : Recs(FileSink)[i] \in PostIds})
                = Cardinality(PostIds)

\* two threads emit after init_clogger completed: one holds the file's lock in
\* the middle of its line, the other one waits for it
C4_Witness ==
    \E t1, t2 \in Threads :
        /\ t1 # t2
        /\ cur[t1].id \in PostIds /\ cur[t2].id \in PostIds
        /\ pc[t1] = "out_tail" /\ cur[t1].k = 2
        /\ pc[t2] = "out_head" /\ cur[t2].k = 2

\* the lines of each thread in s are in the order of its emissions
InOrder(s) ==
    \A i, j \in 1..Len(Recs(s)) :
        i < j /\ Recs(s)[i][1] = Recs(s)[j][1] => Recs(s)[i][2] < Recs(s)[j][2]

\* s holds as many lines of thread t's records of PostIds as there are
OnePerRecord(s, t) ==
    Cardinality({i \in 1..Len(Recs(s)) : Recs(s)[i] \in PostIds /\ Recs(s)[i][1] = t})
        = Cardinality({id \in PostIds : id[1] = t})

\* C5: in stdout and in the file, the lines of one thread are in the order of
\* its emissions (the sequence numbers grow with the emissions), and a thread
\* between calls has one line for each record it emitted after init_clogger
\* completed, but the Trace ones.
C5_LinesInEmissionOrder ==
    /\ InOrder(stdout)
    /\ InOrder(FileSink)
    /\ \A t \in Threads : pc[t] = "idle" => OnePerRecord(stdout, t) /\ OnePerRecord(FileSink, t)

\* one thread emitted two records after init_clogger completed; both lines are
\* in the file
C5_Witness ==
    \E t \in Threads :
        /\ pc[t] = "idle"
        /\ Cardinality({id \in PostIds : id[1] = t}) = 2
        /\ \A id \in PostIds : Lines(FileSink, id) = 1 /\ Lines(stdout, id) = 1

\* what a call of init_clogger that does not run the closure must leave alone
Resources == <<once, logger, maxLevel, sink, cur, exists, files, stdout,
               stdoutLock, fileLock, emitted, opened, bodyRuns>>

\* C6, as stated: every call of init_clogger after the first returns normally.
\* A thread in "panic_poisoned" made such a call and panicked in call_once.
C6_LaterCallsNeverPanic == \A t \in Threads : pc[t] # "panic_poisoned"

\* C6, amended: a call of init_clogger made once the closure has completed
\* returns at once and changes nothing; a call made once the closure has
\* panicked panics in call_once and changes nothing either; a call that found
\* the closure running ends in one of these two ways.
C6_LaterCallsIgnoredOrPoisoned ==
    [][\A t \in Threads :
          /\ inits'[t] = inits[t] + 1 /\ once \in {"complete", "poisoned"} =>
                /\ pc'[t] = IF once = "complete" THEN "idle" ELSE "panic_poisoned"
                /\ UNCHANGED Resources
          /\ pc[t] = "once_wait" /\ pc'[t] # "once_wait" =>
                /\ once \in {"complete", "poisoned"}
                /\ pc'[t] = IF once = "complete" THEN "idle" ELSE "panic_poisoned"
                /\ UNCHANGED Resources]_vars

\* a call with another path than the first one's was made and ignored
C6_Witness ==
    \E t \in Threads :
        /\ once = "complete"
        /\ pc[t] = "idle"
        /\ local[t] \notin {NoPath, firstPath}
        /\ exists \cup {local[t]} # exists

\* no output has received a piece
NothingWritten == stdout = <<>> /\ \A p \in Paths : Added(p) = <<>>

\* C7: the closure goes past fern::log_file only with the file opened and past
\* apply() only with its Dispatch installed; once it has panicked, and as long
\* as another mechanism's logger is installed, no CLogger Dispatch is
\* installed and neither stdout nor any file has received a piece.
C7_FailedSetupInstallsNothing ==
    /\ \A t \in Threads :
          /\ pc[t] = "apply" => local[t] \in opened
          /\ pc[t] \in {"set_max_level", "boot"} =>
                logger = "clogger" /\ sink = local[t] /\ sink \in opened
    /\ once = "complete" => logger = "clogger" /\ sink \in opened
    /\ once = "poisoned" =>
          /\ \E t \in Threads : pc[t] \in {"panic_open", "panic_apply"}
          /\ logger # "clogger" /\ sink = NoPath /\ NothingWritten
    /\ logger = "foreign" => once # "complete" /\ sink = NoPath /\ NothingWritten

\* another mechanism's logger was installed, apply() failed, and the threads
\* went on emitting
C7_Witness ==
    /\ logger = "foreign"
    /\ \E t \in Threads : pc[t] = "panic_apply"
    /\ emits = MaxEmits
    /\ \A t \in Threads : pc[t] \in {"idle", "panic_apply", "panic_poisoned"}

\* C8: a record emitted while no CLogger Dispatch is installed has no piece in
\* stdout or in any file, now or later, and its emission does not panic.
C8_PreInitDropped ==
    /\ logger # "clogger" => NothingWritten
    /\ \A r \in emitted :
          r.phase = "pre" =>
             /\ Absent(stdout, r.id)
             /\ \A p \in Paths : Absent(files[p], r.id)
             /\ pc[r.id[1]] # "panic_emit"

\* a record was emitted before init_clogger, which then completed and wrote
\* its bootstrap line
C8_Witness ==
    /\ once = "complete"
    /\ \E r \in emitted : r.phase = "pre" /\ r.level = Info
    /\ \E b \in BootIds : Lines(FileSink, b) = 1

\* the bootstrap records emitted so far
BootRecs == {r \in emitted : IsBoot(r.id)}

C10_BootstrapFirst ==
    /\ stdout # <<>> => IsBoot(stdout[1].rec)
    /\ FileSink # <<>> => IsBoot(FileSink[1].rec)

\* no piece of s up to the i-th is the bootstrap record's
BeforeBoot(s, i) == \A j \in 1..i : ~IsBoot(s[j].rec)

\* such pieces come from records emitted while the closure was running
OnlyRacersBefore(s) ==
    \A i \in 1..Len(s) :
        BeforeBoot(s, i) =>
            \E r \in emitted : r.id = s[i].rec /\ r.phase = "during"

\* C10, amended: in both outputs, what precedes the bootstrap record's line
\* (or is there before it) comes from records that another thread emitted
\* while the closure was running with the Dispatch installed; no record
\* emitted before that, or after init_clogger completed, precedes it.
C10_OnlyConcurrentEmissionsPrecede ==
    /\ OnlyRacersBefore(stdout)
    /\ OnlyRacersBefore(FileSink)
    /\ (\A r \in emitted : r.phase # "during") => C10_BootstrapFirst

\* the line of another thread's record precedes the bootstrap line in the file
C10_Witness ==
    \E i, j \in 1..Len(FileSink) :
        i < j /\ ~IsBoot(FileSink[i].rec) /\ IsBoot(FileSink[j].rec)

====
